---------------------------- MODULE Spec2Model ----------------------------
(***************************************************************************)
(* A model of iho/kvs: the record store layered on RocksDB.                *)
(*                                                                         *)
(*   KVS         the interface (Put, Get, Delete, Index, Seq, Count, Dir)  *)
(*   KVSRocksDB  the facade that implements it over RocksDB                *)
(*   RocksDB     Cut, Take, Drop, Top, Bot, Next, Prev, LoadReader,        *)
(*               SaveReader, Remove, Append                                *)
(*                                                                         *)
(* The engine (grocksdb) is modelled as a finite map from byte strings to  *)
(* byte strings ordered by bytes.Compare, with an iterator that reads a    *)
(* snapshot.  The codec (github.com/iho/etf) is modelled as the Erlang     *)
(* External Term Format: a version byte, then per term a tag byte, a       *)
(* length field and the payload.                                           *)
(***************************************************************************)
EXTENDS Integers, Sequences, FiniteSets

\* Largest count handed to Take and Drop (counts range over -1 .. MaxN).
MaxN == 2
\* Number of tuple keys {t, i}, i in 1 .. MaxRec, next to the atom keys.
MaxRec == 1
VARIABLES
    db,     \* the engine's keyspace: encoded key -> encoded value
    last,   \* the last completed call of the single caller, with the store before it
    pc,     \* concurrent callers: where each caller is inside its call
    loc,    \* concurrent callers: the locals of the call in progress
    puts,   \* concurrent callers: the engine Puts issued by Append, in order
    cursors \* the engine's iterators that are created and not yet closed

vars == <<db, last, pc, loc, puts, cursors>>

---------------------------------------------------------------------------
(* Sequences of bytes *)

Range(s) == {s[i] : i \in 1..Len(s)}

RECURSIVE CompareFrom(_, _, _)
\* The order of a and b, which agree before index i.
CompareFrom(a, b, i) ==
    IF i > Len(a) \/ i > Len(b)
    THEN (IF Len(a) < Len(b) THEN -1 ELSE IF Len(a) > Len(b) THEN 1 ELSE 0)
    ELSE IF a[i] < b[i] THEN -1
    ELSE IF a[i] > b[i] THEN 1
    ELSE CompareFrom(a, b, i + 1)

\* bytes.Compare: -1, 0 or 1 by lexicographic byte order.
BytesCompare(a, b) == CompareFrom(a, b, 1)

BytesLess(a, b) == BytesCompare(a, b) < 0

\* bytes.Equal
BytesEqual(a, b) == BytesCompare(a, b) = 0

---------------------------------------------------------------------------
(* Terms (etf.ErlTerm) *)

Atom(name) == [tag |-> "atom", name |-> name, val |-> 0, elems |-> <<>>]
Integer(i) == [tag |-> "int", name |-> <<>>, val |-> i, elems |-> <<>>]
Tuple(es)  == [tag |-> "tuple", name |-> <<>>, val |-> 0, elems |-> es]
\* Go's nil, returned in place of a term on the error paths.
NilTerm    == [tag |-> "nil", name |-> <<>>, val |-> 0, elems |-> <<>>]

\* A Go value the codec has no encoding for (a channel, a func).
Opaque     == [tag |-> "opaque", name |-> <<>>, val |-> 0, elems |-> <<>>]

RECURSIVE Encodable(_)
\* etf.EncodeErlTerm returns no error for t.
Encodable(t) ==
    \/ t.tag \in {"atom", "int"}
    \/ t.tag = "tuple" /\ \A i \in 1..Len(t.elems) : Encodable(t.elems[i])

\* Big-endian bytes of a magnitude below 2^31.
WordBytes(u) ==
    <<u \div 16777216, (u \div 65536) % 256, (u \div 256) % 256, u % 256>>

\* Big-endian bytes of a 32-bit two's complement integer: a negative i is
\* the bitwise complement of -(i + 1).
Int32Bytes(i) ==
    IF i >= 0 THEN WordBytes(i)
    ELSE [j \in 1..4 |-> 255 - WordBytes(-(i + 1))[j]]

\* The 32-bit two's complement integer of four big-endian bytes.
Int32Value(w) ==
    IF w[1] < 128
    THEN w[1] * 16777216 + w[2] * 65536 + w[3] * 256 + w[4]
    ELSE -((255 - w[1]) * 16777216 + (255 - w[2]) * 65536
           + (255 - w[3]) * 256 + (255 - w[4])) - 1

RECURSIVE EncodeTerm(_)
RECURSIVE EncodeElems(_)
\* A term without the version byte: SMALL_INTEGER_EXT 97, INTEGER_EXT 98,
\* ATOM_EXT 100 with a two-byte length, SMALL_TUPLE_EXT 104 with its arity.
EncodeTerm(t) ==
    IF t.tag = "atom"
    THEN <<100, Len(t.name) \div 256, Len(t.name) % 256>> \o t.name
    ELSE IF t.tag = "int"
    THEN (IF t.val >= 0 /\ t.val <= 255 THEN <<97, t.val>>
          ELSE <<98>> \o Int32Bytes(t.val))
    ELSE <<104, Len(t.elems)>> \o EncodeElems(t.elems)
EncodeElems(es) ==
    IF es = <<>> THEN <<>> ELSE EncodeTerm(Head(es)) \o EncodeElems(Tail(es))

\* etf.EncodeErlTerm(term, true): the version byte 131, then the term.
EncodeErlTerm(t) == <<131>> \o EncodeTerm(t)

RECURSIVE DecodeAt(_, _)
RECURSIVE DecodeElems(_, _, _, _)
\* Parse one term of b at index i: [ok, term, next], next the index after it.
DecodeAt(b, i) ==
    LET bad == [ok |-> FALSE, term |-> NilTerm, next |-> i]
    IN  IF i > Len(b) THEN bad
        ELSE IF b[i] = 97
        THEN (IF i + 1 > Len(b) THEN bad
              ELSE [ok |-> TRUE, term |-> Integer(b[i + 1]), next |-> i + 2])
        ELSE IF b[i] = 98
        THEN (IF i + 4 > Len(b) THEN bad
              ELSE [ok |-> TRUE,
                    term |-> Integer(Int32Value(SubSeq(b, i + 1, i + 4))),
                    next |-> i + 5])
        ELSE IF b[i] = 100
        THEN (IF i + 2 > Len(b) THEN bad
              ELSE LET n == b[i + 1] * 256 + b[i + 2]
                   IN  IF i + 2 + n > Len(b) THEN bad
                       ELSE [ok |-> TRUE,
                             term |-> Atom(SubSeq(b, i + 3, i + 2 + n)),
                             next |-> i + 3 + n])
        ELSE IF b[i] = 104
        THEN (IF i + 1 > Len(b) THEN bad
              ELSE DecodeElems(b, i + 2, b[i + 1], <<>>))
        ELSE bad
\* Parse n more elements of a tuple from index i, acc the elements so far.
DecodeElems(b, i, n, acc) ==
    IF n = 0 THEN [ok |-> TRUE, term |-> Tuple(acc), next |-> i]
    ELSE LET r == DecodeAt(b, i)
         IN  IF ~r.ok THEN [ok |-> FALSE, term |-> NilTerm, next |-> i]
             ELSE DecodeElems(b, r.next, n - 1, Append(acc, r.term))

\* etf.DecodeErlTerm(bytes): [ok, term]; fails on a missing version byte,
\* an unknown tag, truncated or trailing bytes.
DecodeErlTerm(b) ==
    IF Len(b) = 0 \/ b[1] # 131 THEN [ok |-> FALSE, term |-> NilTerm]
    ELSE LET r == DecodeAt(b, 2)
         IN  IF r.ok /\ r.next = Len(b) + 1
             THEN [ok |-> TRUE, term |-> r.term]
             ELSE [ok |-> FALSE, term |-> NilTerm]

---------------------------------------------------------------------------
(* The engine: grocksdb.DB, its iterator and its write batch *)

EmptyDb == [k \in {} |-> <<>>]

\* db.GetBytes(ro, key): a copy of the value, or nil when the key is absent.
GetBytes(d, key) ==
    IF key \in DOMAIN d THEN [isNil |-> FALSE, data |-> d[key]]
    ELSE [isNil |-> TRUE, data |-> <<>>]

\* db.Put(wo, key, value): the key's value is replaced or created.
DbPut(d, key, value) ==
    [k \in DOMAIN d \cup {key} |-> IF k = key THEN value ELSE d[k]]

\* db.Delete(wo, key): the key is removed; absent keys are no error.
DbDelete(d, key) == [k \in DOMAIN d \ {key} |-> d[k]]

\* A write that deletes the range from the first to the last staged key,
\* as db.DeleteRange would.
DbWriteRange(d, batch) ==
    [k \in {j \in DOMAIN d :
                \/ batch = <<>>
                \/ BytesLess(j, batch[1])
                \/ BytesLess(batch[Len(batch)], j)} |-> d[k]]

\* db.Write(wo, batch): every staged deletion is applied in one commit.
DbWrite(d, batch) == [k \in DOMAIN d \ Range(batch) |-> d[k]]

\* The smallest and the largest key of a non-empty set of keys.
FirstKey(S) == CHOOSE k \in S : \A j \in S : ~BytesLess(j, k)
LastKey(S) == CHOOSE k \in S : \A j \in S : ~BytesLess(k, j)

\* An iterator placed on key k of snapshot snap, or invalid when S is empty.
Place(it, S, pick) ==
    IF it.bad \/ S = {} THEN [it EXCEPT !.valid = FALSE, !.key = <<>>]
    ELSE [it EXCEPT !.valid = TRUE, !.key = pick]

\* db.NewIterator(ro): reads the keyspace as it is now.  bad: the engine
\* reports an iteration error (iter.Err() is not nil) and yields no position.
NewIterator(d, bad) == [snap |-> d, valid |-> FALSE, key |-> <<>>, bad |-> bad]

IterSeekToFirst(it) ==
    LET S == DOMAIN it.snap IN Place(it, S, FirstKey(S))
IterSeekToLast(it) ==
    LET S == DOMAIN it.snap IN Place(it, S, LastKey(S))
\* iter.Seek(target): the first key >= target.
IterSeek(it, target) ==
    LET S == {k \in DOMAIN it.snap : ~BytesLess(k, target)} IN Place(it, S, FirstKey(S))
\* iter.SeekForPrev(target): the last key <= target.
IterSeekForPrev(it, target) ==
    LET S == {k \in DOMAIN it.snap : ~BytesLess(target, k)} IN Place(it, S, LastKey(S))
\* An iter.Next() that leaves the iterator where it is.
IterNextStuck(it) == it

\* iter.Next() of a valid iterator: the first key after the current one.
IterNext(it) ==
    LET S == {k \in DOMAIN it.snap : BytesLess(it.key, k)} IN Place(it, S, FirstKey(S))
\* iter.Prev() of a valid iterator: the last key before the current one.
IterPrev(it) ==
    LET S == {k \in DOMAIN it.snap : BytesLess(k, it.key)} IN Place(it, S, LastKey(S))
\* iter.Value() of a valid iterator.
IterValue(it) == it.snap[it.key]

---------------------------------------------------------------------------
(* Results of a call: the store after it, the error, and what it returns *)

ErrNil == "nil"
ErrEngine == "engine error"
ErrEncode == "encode error"
ErrDecode == "decode error"
ErrKeyNotFound == "key not found"
ErrEmpty == "database is empty"
ErrNoNext == "no next key"
ErrNoPrev == "no previous key"

\* ret: a returned term (Get's value, Append's key); out: returned records;
\* writes: the write calls (Put, Delete, Write) the call made on the engine.
Result(d, err, ret, out) ==
    [db |-> d, err |-> err, ret |-> ret, out |-> out, writes |-> 0]
Failed(d, err) == Result(d, err, NilTerm, <<>>)
\* Result r of a path on which one more write call was made on the engine.
Wrote(r) == [r EXCEPT !.writes = @ + 1]

MapElem(k, v) == [Key |-> k, Value |-> v]

\* The tail shared by Top, Bot, Next and Prev: decode and return the
\* record under a valid iterator, else the iterator's error, else notFound.
ReturnRecord(d, it, notFound) ==
    IF it.valid
    THEN LET k == DecodeErlTerm(it.key)
             v == DecodeErlTerm(IterValue(it))
         IN  IF ~k.ok \/ ~v.ok THEN Failed(d, ErrDecode)
             ELSE Result(d, ErrNil, NilTerm, <<MapElem(k.term, v.term)>>)
    ELSE IF it.bad THEN Failed(d, ErrEngine)
    ELSE Failed(d, notFound)

---------------------------------------------------------------------------
(* rocksdb.go.  d is the keyspace when the call starts; fault names the    *)
(* engine call that fails during it, "none" when the engine never fails.   *)

\* end := append(start, 0xFF)
CutEndByte == 255

RECURSIVE CutLoop(_, _, _)
\* for iter.Seek(start); iter.Valid(); iter.Next(): stage keys below end.
CutLoop(it, end, batch) ==
    IF ~it.valid THEN batch
    ELSE IF BytesCompare(it.key, end) >= 0 THEN batch
    ELSE CutLoop(IterNext(it), end, Append(batch, it.key))

\* Cut removes the keys of [encode(feed), encode(feed) ++ 0xFF).
Cut(d, feed, fault) ==
    IF ~Encodable(feed) THEN Failed(d, ErrEncode) ELSE
    LET start == EncodeErlTerm(feed)
        end == Append(start, CutEndByte)
        iter == NewIterator(d, fault = "iter")
        batch == CutLoop(IterSeek(iter, start), end, <<>>)
    IN  IF iter.bad THEN Failed(d, ErrEngine)
        ELSE IF fault = "write" THEN Wrote(Failed(d, ErrEngine))
        ELSE Wrote(Result(DbWrite(d, batch), ErrNil, NilTerm, <<>>))

RECURSIVE TakeLoopInclusive(_, _, _, _)
\* TakeLoop with the bound off by one: count <= num.
TakeLoopInclusive(it, count, num, result) ==
    IF ~(it.valid /\ count <= num) THEN [err |-> ErrNil, result |-> result]
    ELSE LET k == DecodeErlTerm(it.key)
             v == DecodeErlTerm(IterValue(it))
         IN  IF ~k.ok \/ ~v.ok THEN [err |-> ErrDecode, result |-> <<>>]
             ELSE TakeLoopInclusive(IterNext(it), count + 1, num,
                                    Append(result, MapElem(k.term, v.term)))

RECURSIVE TakeLoop(_, _, _, _)
\* for ; iter.Valid() && count < num; iter.Next(): decode and collect.
TakeLoop(it, count, num, result) ==
    IF ~(it.valid /\ count < num) THEN [err |-> ErrNil, result |-> result]
    ELSE LET k == DecodeErlTerm(it.key)
             v == DecodeErlTerm(IterValue(it))
         IN  IF ~k.ok \/ ~v.ok THEN [err |-> ErrDecode, result |-> <<>>]
             ELSE TakeLoop(IterNext(it), count + 1, num,
                           Append(result, MapElem(k.term, v.term)))

\* Take that removes the records it returns.
TakeDestructive(d, startKey, num, fault) ==
    IF ~Encodable(startKey) THEN Failed(d, ErrEncode) ELSE
    LET iter == NewIterator(d, fault = "iter")
        start == EncodeErlTerm(startKey)
        r == TakeLoop(IterSeek(iter, start), 0, num, <<>>)
        taken == [i \in 1..Len(r.result) |-> EncodeErlTerm(r.result[i].Key)]
    IN  IF r.err # ErrNil THEN Failed(d, r.err)
        ELSE IF iter.bad THEN Failed(d, ErrEngine)
        ELSE Result(DbWrite(d, taken), ErrNil, NilTerm, r.result)

\* Take returns up to num records from the first key >= encode(startKey).
Take(d, startKey, num, fault) ==
    IF ~Encodable(startKey) THEN Failed(d, ErrEncode) ELSE
    LET iter == NewIterator(d, fault = "iter")
        start == EncodeErlTerm(startKey)
        r == TakeLoop(IterSeek(iter, start), 0, num, <<>>)
    IN  IF r.err # ErrNil THEN Failed(d, r.err)
        ELSE IF iter.bad THEN Failed(d, ErrEngine)
        ELSE Result(d, ErrNil, NilTerm, r.result)

RECURSIVE DropLoopInclusive(_, _, _, _)
\* DropLoop with the bound off by one: count <= num.
DropLoopInclusive(it, count, num, batch) ==
    IF ~(it.valid /\ count <= num) THEN batch
    ELSE DropLoopInclusive(IterNext(it), count + 1, num, Append(batch, it.key))

RECURSIVE DropLoop(_, _, _, _)
\* for ; iter.Valid() && count < num; iter.Next(): stage the key.
DropLoop(it, count, num, batch) ==
    IF ~(it.valid /\ count < num) THEN batch
    ELSE DropLoop(IterNext(it), count + 1, num, Append(batch, it.key))

\* Drop of the earlier definition: each visited key is deleted inside the
\* loop and the error of r.db.Delete is dropped, so the call returns nil
\* also when the engine rejected the deletes.
DropUnchecked(d, startKey, num, fault) ==
    IF ~Encodable(startKey) THEN Failed(d, ErrEncode) ELSE
    LET iter == NewIterator(d, fault = "iter")
        start == EncodeErlTerm(startKey)
        batch == DropLoop(IterSeek(iter, start), 0, num, <<>>)
        after == IF fault = "write" THEN d ELSE DbWrite(d, batch)
    IN  IF iter.bad THEN Failed(d, ErrEngine)
        ELSE [Result(after, ErrNil, NilTerm, <<>>) EXCEPT !.writes = Len(batch)]

\* Drop removes up to num records from the first key >= encode(startKey).
Drop(d, startKey, num, fault) ==
    IF ~Encodable(startKey) THEN Failed(d, ErrEncode) ELSE
    LET iter == NewIterator(d, fault = "iter")
        start == EncodeErlTerm(startKey)
        batch == DropLoop(IterSeek(iter, start), 0, num, <<>>)
    IN  IF iter.bad THEN Failed(d, ErrEngine)
        ELSE IF fault = "write" THEN Wrote(Failed(d, ErrEngine))
        ELSE Wrote(Result(DbWrite(d, batch), ErrNil, NilTerm, <<>>))

\* Top returns the first record of the keyspace.
Top(d, fault) ==
    ReturnRecord(d, IterSeekToFirst(NewIterator(d, fault = "iter")), ErrEmpty)

\* Bot seeking to the first key instead of the last.
BotFirst(d, fault) ==
    ReturnRecord(d, IterSeekToFirst(NewIterator(d, fault = "iter")), ErrEmpty)

\* Bot returns the last record of the keyspace.
Bot(d, fault) ==
    ReturnRecord(d, IterSeekToLast(NewIterator(d, fault = "iter")), ErrEmpty)

\* Next stepping after every seek, also when the seek landed past startKey.
NextAlwaysStep(d, startKey, fault) ==
    IF ~Encodable(startKey) THEN Failed(d, ErrEncode) ELSE
    LET start == EncodeErlTerm(startKey)
        sought == IterSeek(NewIterator(d, fault = "iter"), start)
        iter == IF sought.valid THEN IterNext(sought) ELSE sought
    IN  ReturnRecord(d, iter, ErrNoNext)

\* Next: seek to startKey, step over it when the seek landed on it.
Next(d, startKey, fault) ==
    IF ~Encodable(startKey) THEN Failed(d, ErrEncode) ELSE
    LET start == EncodeErlTerm(startKey)
        sought == IterSeek(NewIterator(d, fault = "iter"), start)
        iter == IF sought.valid /\ BytesEqual(sought.key, start)
                THEN IterNext(sought) ELSE sought
    IN  ReturnRecord(d, iter, ErrNoNext)

\* Prev without the backward seek when no key >= startKey exists.
PrevNoFallback(d, startKey, fault) ==
    IF ~Encodable(startKey) THEN Failed(d, ErrEncode) ELSE
    LET start == EncodeErlTerm(startKey)
        sought == IterSeek(NewIterator(d, fault = "iter"), start)
        iter == IF sought.valid THEN IterPrev(sought) ELSE sought
    IN  ReturnRecord(d, iter, ErrNoPrev)

\* Prev as a backward seek alone: iter.SeekForPrev(start) without a step.
PrevInclusive(d, startKey, fault) ==
    IF ~Encodable(startKey) THEN Failed(d, ErrEncode) ELSE
    LET start == EncodeErlTerm(startKey)
        iter == IterSeekForPrev(NewIterator(d, fault = "iter"), start)
    IN  ReturnRecord(d, iter, ErrNoPrev)

\* Prev: seek to startKey and step back, or seek backwards from startKey
\* when no key >= startKey exists.
Prev(d, startKey, fault) ==
    IF ~Encodable(startKey) THEN Failed(d, ErrEncode) ELSE
    LET start == EncodeErlTerm(startKey)
        sought == IterSeek(NewIterator(d, fault = "iter"), start)
        iter == IF sought.valid THEN IterPrev(sought)
                ELSE IterSeekForPrev(sought, start)
    IN  ReturnRecord(d, iter, ErrNoPrev)

\* LoadReader answering an absent key with an empty value and no error.
LoadReaderEmpty(d, id, fault) ==
    IF ~Encodable(id) THEN Failed(d, ErrEncode) ELSE
    LET idb == EncodeErlTerm(id)
        value == GetBytes(d, idb)
    IN  IF fault = "get" THEN Failed(d, ErrEngine)
        ELSE IF value.isNil THEN Result(d, ErrNil, Atom(<<>>), <<>>)
        ELSE LET v == DecodeErlTerm(value.data)
             IN  IF ~v.ok THEN Failed(d, ErrDecode)
                 ELSE Result(d, ErrNil, v.term, <<>>)

\* LoadReader: the decoded value stored under encode(id).
LoadReader(d, id, fault) ==
    IF ~Encodable(id) THEN Failed(d, ErrEncode) ELSE
    LET idb == EncodeErlTerm(id)
        value == GetBytes(d, idb)
    IN  IF fault = "get" THEN Failed(d, ErrEngine)
        ELSE IF value.isNil THEN Failed(d, ErrKeyNotFound)
        ELSE LET v == DecodeErlTerm(value.data)
             IN  IF ~v.ok THEN Failed(d, ErrDecode)
                 ELSE Result(d, ErrNil, v.term, <<>>)

\* SaveReader keeping the value of a key that already holds one.
SaveReaderKeep(d, id, data, fault) ==
    IF ~Encodable(id) \/ ~Encodable(data) THEN Failed(d, ErrEncode) ELSE
    LET idb == EncodeErlTerm(id)
        dataErl == EncodeErlTerm(data)
    IN  IF fault = "put" THEN Wrote(Failed(d, ErrEngine))
        ELSE IF idb \in DOMAIN d THEN Result(d, ErrNil, NilTerm, <<>>)
        ELSE Wrote(Result(DbPut(d, idb, dataErl), ErrNil, NilTerm, <<>>))

\* SaveReader: encode(data) is stored under encode(id).
SaveReader(d, id, data, fault) ==
    IF ~Encodable(id) \/ ~Encodable(data) THEN Failed(d, ErrEncode) ELSE
    LET idb == EncodeErlTerm(id)
        dataErl == EncodeErlTerm(data)
    IN  IF fault = "put" THEN Wrote(Failed(d, ErrEngine))
        ELSE Wrote(Result(DbPut(d, idb, dataErl), ErrNil, NilTerm, <<>>))

\* Remove deleting the key and every key after it.
RemoveFrom(d, key, fault) ==
    IF ~Encodable(key) THEN Failed(d, ErrEncode) ELSE
    LET keyb == EncodeErlTerm(key)
    IN  IF fault = "delete" THEN Wrote(Failed(d, ErrEngine))
        ELSE Wrote(Result([k \in {j \in DOMAIN d : BytesLess(j, keyb)} |-> d[k]],
                          ErrNil, NilTerm, <<>>))

\* Remove reporting an absent key as an error.
RemoveStrict(d, key, fault) ==
    IF ~Encodable(key) THEN Failed(d, ErrEncode) ELSE
    LET keyb == EncodeErlTerm(key)
    IN  IF fault = "delete" THEN Wrote(Failed(d, ErrEngine))
        ELSE IF keyb \notin DOMAIN d THEN Failed(d, ErrKeyNotFound)
        ELSE Wrote(Result(DbDelete(d, keyb), ErrNil, NilTerm, <<>>))

\* Remove: the record under encode(key) is deleted.
Remove(d, key, fault) ==
    IF ~Encodable(key) THEN Failed(d, ErrEncode) ELSE
    LET keyb == EncodeErlTerm(key)
    IN  IF fault = "delete" THEN Wrote(Failed(d, ErrEngine))
        ELSE Wrote(Result(DbDelete(d, keyb), ErrNil, NilTerm, <<>>))

\* Append, first half: existingValue, err := r.db.GetBytes(r.ro, recb).
AppendGet(d, rec) == GetBytes(d, EncodeErlTerm(rec))

\* AppendPut writing whether or not a value was found.
AppendPutAlways(d, rec, feed, existingValue, fault) ==
    IF ~Encodable(feed) THEN Failed(d, ErrEncode)
    ELSE IF fault = "put" THEN Wrote(Failed(d, ErrEngine))
    ELSE Wrote(Result(DbPut(d, EncodeErlTerm(rec), EncodeErlTerm(feed)), ErrNil, rec, <<>>))

\* AppendPut as a conditional put: the key is checked again, on the keyspace
\* as it is when the Put is issued.
AppendPutIfAbsent(d, rec, feed, existingValue, fault) ==
    IF ~existingValue.isNil \/ EncodeErlTerm(rec) \in DOMAIN d
    THEN Result(d, ErrNil, rec, <<>>)
    ELSE IF ~Encodable(feed) THEN Failed(d, ErrEncode)
    ELSE IF fault = "put" THEN Wrote(Failed(d, ErrEngine))
    ELSE Wrote(Result(DbPut(d, EncodeErlTerm(rec), EncodeErlTerm(feed)), ErrNil, rec, <<>>))

\* Append, second half: the branch on existingValue and the insert, on the
\* keyspace as it is when the Put is issued.
AppendPut(d, rec, feed, existingValue, fault) ==
    IF ~existingValue.isNil THEN Result(d, ErrNil, rec, <<>>)
    ELSE IF ~Encodable(feed) THEN Failed(d, ErrEncode)
    ELSE IF fault = "put" THEN Wrote(Failed(d, ErrEngine))
    ELSE Wrote(Result(DbPut(d, EncodeErlTerm(rec), EncodeErlTerm(feed)), ErrNil, rec, <<>>))

\* Append run by a single caller: nothing happens between its two halves.
AppendRec(d, rec, feed, fault) ==
    IF ~Encodable(rec) THEN Failed(d, ErrEncode)
    ELSE IF fault = "get" THEN Failed(d, ErrEngine)
    ELSE AppendPut(d, rec, feed, AppendGet(d, rec), fault)

---------------------------------------------------------------------------
(* kvs_rocksdb.go: the facade *)

Put(d, id, data, fault) == SaveReader(d, id, data, fault)
Get(d, id, fault) == LoadReader(d, id, fault)
Delete(d, id, fault) == Remove(d, id, fault)

\* Index and Seq: return nil, nil.  (Seq is KVSSeq here: Seq is the set of
\* sequences.)
Index(d, field, value) == Result(d, ErrNil, NilTerm, <<>>)
KVSSeq(d) == Result(d, ErrNil, NilTerm, <<>>)

\* RocksDB.Count: the number of records in the keyspace.
RocksDBCount(d, fault) ==
    IF fault = "iter" THEN Failed(d, ErrEngine)
    ELSE Result(d, ErrNil, Integer(Cardinality(DOMAIN d)), <<>>)

RECURSIVE AllLoop(_, _)
\* The scan of RocksDB.All: the decoded keys from the iterator on.
AllLoop(it, result) ==
    IF ~it.valid THEN [err |-> ErrNil, result |-> result]
    ELSE LET k == DecodeErlTerm(it.key)
         IN  IF ~k.ok THEN [err |-> ErrDecode, result |-> <<>>]
             ELSE AllLoop(IterNext(it), Append(result, k.term))

\* RocksDB.All: the keys of the keyspace, in a full ascending scan from the
\* first to the last.
All(d, prefix, fault) ==
    LET iter == NewIterator(d, fault = "iter")
        r == AllLoop(IterSeekToFirst(iter), <<>>)
    IN  IF r.err # ErrNil THEN Failed(d, r.err)
        ELSE IF iter.bad THEN Failed(d, ErrEngine)
        ELSE Result(d, ErrNil, NilTerm, r.result)

\* Count written as the stubs Index and Seq are: returns 0, nil.
CountStub(d, fault) == Result(d, ErrNil, Integer(0), <<>>)

Count(d, fault) == RocksDBCount(d, fault)
Dir(d, fault) == All(d, Atom(<<>>), fault)

---------------------------------------------------------------------------
(* The callers' inputs *)

\* Keys: the atoms a and b and the tuples {t, i}, as the records of main.
KeyTerms ==
    {Atom(<<97>>), Atom(<<98>>)}
        \cup {Tuple(<<Atom(<<116>>), Integer(i)>>) : i \in 1..MaxRec}

\* Values: an atom (the feed of main) and a tuple (its reader state).
ValTerms == {Atom(<<102>>), Tuple(<<Atom(<<115>>), Integer(999)>>)}

Counts == -1..MaxN

\* The callers that run Append at the same time.
Callers == {"c1", "c2"}

---------------------------------------------------------------------------
(* One caller: every call runs from start to end before the next starts *)

NoCall ==
    [op |-> "none", key |-> NilTerm, val |-> NilTerm, n |-> 0, fault |-> "none",
     pre |-> EmptyDb, err |-> ErrNil, ret |-> NilTerm, out |-> <<>>,
     writes |-> 0]

\* The locals of Append: rec, feed, existingValue, and what it returned.
NoLocals ==
    [rec |-> NilTerm, feed |-> NilTerm, existingValue |-> GetBytes(EmptyDb, <<>>),
     err |-> ErrNil, ret |-> NilTerm]

Init ==
    /\ db = EmptyDb
    /\ last = NoCall
    /\ pc = [c \in Callers |-> "idle"]
    /\ loc = [c \in Callers |-> NoLocals]
    /\ puts = <<>>
    /\ cursors = {}

\* The call returns r: the store becomes r.db and the call is recorded.
Return(op, key, val, n, fault, r) ==
    /\ db' = r.db
    /\ last' = [op |-> op, key |-> key, val |-> val, n |-> n, fault |-> fault,
                pre |-> db, err |-> r.err, ret |-> r.ret, out |-> r.out,
                writes |-> r.writes]
    /\ UNCHANGED <<pc, loc, puts, cursors>>

CallPut ==
    \E k \in KeyTerms, v \in ValTerms, f \in {"none", "put"} :
        \E r \in {Put(db, k, v, f)} : Return("Put", k, v, 0, f, r)

CallGet ==
    \E k \in KeyTerms, f \in {"none", "get"} :
        \E r \in {Get(db, k, f)} : Return("Get", k, NilTerm, 0, f, r)

CallDelete ==
    \E k \in KeyTerms, f \in {"none", "delete"} :
        \E r \in {Delete(db, k, f)} : Return("Delete", k, NilTerm, 0, f, r)

CallAppend ==
    \E k \in KeyTerms, v \in ValTerms, f \in {"none", "get", "put"} :
        \E r \in {AppendRec(db, k, v, f)} : Return("Append", k, v, 0, f, r)

CallTop ==
    \E f \in {"none", "iter"} :
        \E r \in {Top(db, f)} : Return("Top", NilTerm, NilTerm, 0, f, r)

CallBot ==
    \E f \in {"none", "iter"} :
        \E r \in {Bot(db, f)} : Return("Bot", NilTerm, NilTerm, 0, f, r)

CallNext ==
    \E k \in KeyTerms, f \in {"none", "iter"} :
        \E r \in {Next(db, k, f)} : Return("Next", k, NilTerm, 0, f, r)

CallPrev ==
    \E k \in KeyTerms, f \in {"none", "iter"} :
        \E r \in {Prev(db, k, f)} : Return("Prev", k, NilTerm, 0, f, r)

CallTake ==
    \E k \in KeyTerms, n \in Counts, f \in {"none", "iter"} :
        \E r \in {Take(db, k, n, f)} : Return("Take", k, NilTerm, n, f, r)

CallDrop ==
    \E k \in KeyTerms, n \in Counts, f \in {"none", "iter", "write"} :
        \E r \in {Drop(db, k, n, f)} : Return("Drop", k, NilTerm, n, f, r)

CallCut ==
    \E k \in KeyTerms, f \in {"none", "iter", "write"} :
        \E r \in {Cut(db, k, f)} : Return("Cut", k, NilTerm, 0, f, r)

Step ==
    \/ CallPut
    \/ CallGet
    \/ CallDelete
    \/ CallAppend
    \/ CallTop
    \/ CallBot
    \/ CallNext
    \/ CallPrev
    \/ CallTake
    \/ CallDrop
    \/ CallCut

Spec == Init /\ [][Step]_vars

---------------------------------------------------------------------------
(* Concurrent callers of Append.  The engine serialises its own calls, so  *)
(* a caller's GetBytes and its Put are two steps, and the other caller's   *)
(* steps may fall between them.                                            *)

\* Caller c enters Append(rec, feed) and runs it up to the return of
\* GetBytes; an engine error ends the call there.
AppendCheck(c) ==
    /\ pc[c] = "idle"
    /\ \E rec \in KeyTerms, feed \in ValTerms, f \in {"none", "get"} :
        /\ loc' = [loc EXCEPT ![c] =
                     [rec |-> rec, feed |-> feed,
                      existingValue |-> AppendGet(db, rec),
                      err |-> IF f = "get" THEN ErrEngine ELSE ErrNil,
                      ret |-> NilTerm]]
        /\ pc' = [pc EXCEPT ![c] = IF f = "get" THEN "done" ELSE "checked"]
    /\ UNCHANGED <<db, last, puts, cursors>>

\* Caller c runs the rest of Append: the branch on existingValue, the Put
\* when it was nil, and the return.
AppendInsert(c) ==
    /\ pc[c] = "checked"
    /\ \E f \in {"none", "put"} :
        \E r \in {AppendPut(db, loc[c].rec, loc[c].feed, loc[c].existingValue, f)} :
            /\ db' = r.db
            /\ loc' = [loc EXCEPT ![c].err = r.err, ![c].ret = r.ret]
            /\ puts' = IF loc[c].existingValue.isNil /\ f = "none"
                       THEN Append(puts, [caller |-> c,
                                          key |-> EncodeErlTerm(loc[c].rec),
                                          value |-> EncodeErlTerm(loc[c].feed)])
                       ELSE puts
    /\ pc' = [pc EXCEPT ![c] = "done"]
    /\ UNCHANGED <<last, cursors>>

\* The caller of c's Append takes the result; c is free for the next call.
AppendReturn(c) ==
    /\ pc[c] = "done"
    /\ pc' = [pc EXCEPT ![c] = "idle"]
    /\ loc' = [loc EXCEPT ![c] = NoLocals]
    /\ puts' = SelectSeq(puts, LAMBDA e : e.caller # c)
    /\ UNCHANGED <<db, last, cursors>>

AppendStep ==
    \E c \in Callers :
        \/ AppendCheck(c)
        \/ AppendInsert(c)
        \/ AppendReturn(c)

AppendSpec == Init /\ [][AppendStep]_vars

---------------------------------------------------------------------------
(* The traversals seen from inside.  A traversal creates its iterator,     *)
(* walks it, and returns through its deferred iter.Close(); other clients  *)
(* of the engine act between these steps.  The caller Scanner runs every   *)
(* traversal; the other callers read and insert.                           *)

\* Drop of the earlier definition: r.db.Delete(r.wo, key.Data()) inside the
\* loop removes each visited key at once.
DropStageDirect(d, batch, key) ==
    [db |-> DbDelete(d, key), batch |-> Append(batch, key)]

\* batch.Delete(key.Data()): the visited key is recorded in the write batch
\* and the keyspace is left alone.
DropStage(d, batch, key) ==
    [db |-> d, batch |-> Append(batch, key)]

\* The loop conditions of Drop and Cut.
DropContinues(it, count, num) == it.valid /\ count < num
CutContinues(it, end) == it.valid /\ BytesCompare(it.key, end) < 0

\* db.NewIterator hands out an iterator no call holds.
NewCursor(open) ==
    CHOOSE i \in 1..(Cardinality(open) + 1) :
        i \notin open /\ \A j \in 1..(i - 1) : j \in open

\* iter.Close() run only when the call succeeds.
IterCloseOnSuccess(open, id, err) == IF err = ErrNil THEN open \ {id} ELSE open

\* defer iter.Close(): runs on every return that follows NewIterator.
IterClose(open, id, err) == open \ {id}

Scanner == "c1"
ReadOps == {"Top", "Bot", "Next", "Prev", "Take"}
ScanOps(c) == IF c = Scanner THEN ReadOps \cup {"Drop", "Cut"} ELSE {"Top", "Take"}
ScanKeys == {Atom(<<97>>), Atom(<<98>>), Opaque}
ScanCounts == {0, MaxN}
\* A record written through the engine handle by another program: its value
\* is not an encoded term.
ForeignKey == EncodeErlTerm(Atom(<<99>>))
ForeignValue == <<0>>

NoScan ==
    [op |-> "none", key |-> NilTerm, n |-> 0, iter |-> NewIterator(EmptyDb, FALSE),
     end |-> <<>>, count |-> 0, batch |-> <<>>, err |-> ErrNil,
     cursor |-> 0, pre |-> EmptyDb, post |-> EmptyDb]

ScanInit ==
    /\ db = EmptyDb
    /\ last = NoCall
    /\ pc = [c \in Callers |-> "idle"]
    /\ loc = [c \in Callers |-> NoScan]
    /\ puts = <<>>
    /\ cursors = {}

\* The read operation op on the keyspace d its iterator reads.
ReadResult(op, d, key, n, fault) ==
    CASE op = "Top" -> Top(d, fault)
      [] op = "Bot" -> Bot(d, fault)
      [] op = "Next" -> Next(d, key, fault)
      [] op = "Prev" -> Prev(d, key, fault)
      [] op = "Take" -> Take(d, key, n, fault)

\* The arguments op takes: Top and Bot take none, only Take and Drop a count.
ScanArgs(op) ==
    {[key |-> k, n |-> n] :
        k \in (IF op \in {"Top", "Bot"} THEN {NilTerm} ELSE ScanKeys),
        n \in (IF op \in {"Take", "Drop"} THEN ScanCounts ELSE {0})}

\* Caller c enters a traversal.  A read runs to its return statement on the
\* keyspace its iterator reads; Drop and Cut run up to their loop.
ScanOpen(c) ==
    /\ pc[c] = "idle"
    /\ \E op \in ScanOps(c), bad \in BOOLEAN :
        \E a \in ScanArgs(op) :
            LET id == NewCursor(cursors)
                fault == IF bad THEN "iter" ELSE "none"
                call == [NoScan EXCEPT !.op = op, !.key = a.key, !.n = a.n]
            IN  IF op = "Cut" /\ ~Encodable(a.key)
                THEN \* Cut encodes before it creates the iterator
                     /\ loc' = [loc EXCEPT ![c] = [call EXCEPT !.err = ErrEncode]]
                     /\ pc' = [pc EXCEPT ![c] = "exiting"]
                     /\ UNCHANGED cursors
                ELSE /\ cursors' = cursors \cup {id}
                     /\ IF op \in ReadOps
                        THEN /\ loc' = [loc EXCEPT ![c] =
                                    [call EXCEPT !.cursor = id,
                                                 !.err = ReadResult(op, db, a.key, a.n, fault).err,
                                                 !.count = Len(ReadResult(op, db, a.key, a.n, fault).out)]]
                             /\ pc' = [pc EXCEPT ![c] = "exiting"]
                        ELSE IF ~Encodable(a.key)
                        THEN /\ loc' = [loc EXCEPT ![c] =
                                    [call EXCEPT !.cursor = id, !.err = ErrEncode]]
                             /\ pc' = [pc EXCEPT ![c] = "exiting"]
                        ELSE LET start == EncodeErlTerm(a.key) IN
                             /\ loc' = [loc EXCEPT ![c] =
                                    [call EXCEPT !.cursor = id,
                                                 !.iter = IterSeek(NewIterator(db, bad), start),
                                                 !.end = Append(start, CutEndByte)]]
                             /\ pc' = [pc EXCEPT ![c] = "scanning"]
    /\ UNCHANGED <<db, last, puts>>

\* One turn of the loop of Drop or Cut: the key under the iterator is staged.
ScanStage(c) ==
    /\ pc[c] = "scanning"
    /\ IF loc[c].op = "Drop"
       THEN DropContinues(loc[c].iter, loc[c].count, loc[c].n)
       ELSE CutContinues(loc[c].iter, loc[c].end)
    /\ \E st \in {DropStage(db, loc[c].batch, loc[c].iter.key)} :
        /\ db' = st.db
        /\ loc' = [loc EXCEPT ![c].batch = st.batch,
                              ![c].iter = IterNext(loc[c].iter),
                              ![c].count = loc[c].count + 1]
    /\ UNCHANGED <<last, pc, puts, cursors>>

\* The loop of Drop or Cut is over: iter.Err() is checked and the batch is
\* written.  pre and post are the keyspace around the write.
ScanCommit(c) ==
    /\ pc[c] = "scanning"
    /\ ~(IF loc[c].op = "Drop"
         THEN DropContinues(loc[c].iter, loc[c].count, loc[c].n)
         ELSE CutContinues(loc[c].iter, loc[c].end))
    /\ \E f \in {"none", "write"} :
        LET err == IF loc[c].iter.bad \/ f = "write" THEN ErrEngine ELSE ErrNil
            written == IF err = ErrNil THEN DbWrite(db, loc[c].batch) ELSE db
        IN  /\ db' = written
            /\ loc' = [loc EXCEPT ![c].err = err, ![c].pre = db, ![c].post = written]
    /\ pc' = [pc EXCEPT ![c] = "exiting"]
    /\ UNCHANGED <<last, puts, cursors>>

\* The call returns: its deferred calls run.  The operation and its error
\* stay on record until c's next call.
ScanReturn(c) ==
    /\ pc[c] = "exiting"
    /\ cursors' = IterClose(cursors, loc[c].cursor, loc[c].err)
    /\ loc' = [loc EXCEPT ![c] = [NoScan EXCEPT !.op = loc[c].op, !.err = loc[c].err]]
    /\ pc' = [pc EXCEPT ![c] = "idle"]
    /\ UNCHANGED <<db, last, puts>>

\* Another client of the store completes a Put.
ScanPut ==
    /\ \E k \in {t \in ScanKeys : Encodable(t)} :
        db' = Put(db, k, Atom(<<102>>), "none").db
    /\ UNCHANGED <<last, pc, loc, puts, cursors>>

\* Another program writes its record through the engine handle.
ForeignPut ==
    /\ db' = DbPut(db, ForeignKey, ForeignValue)
    /\ UNCHANGED <<last, pc, loc, puts, cursors>>

ScanStep ==
    \/ \E c \in Callers :
        \/ ScanOpen(c)
        \/ ScanStage(c)
        \/ ScanCommit(c)
        \/ ScanReturn(c)
    \/ ScanPut
    \/ ForeignPut

ScanSpec == ScanInit /\ [][ScanStep]_vars

\* One caller in the traversals while other clients insert.
RangeStep ==
    \/ ScanOpen(Scanner)
    \/ ScanStage(Scanner)
    \/ ScanCommit(Scanner)
    \/ ScanReturn(Scanner)
    \/ ScanPut
    \/ ForeignPut

\* A call is synchronous code on its caller's goroutine: once entered, its
\* next statement is run.  Nothing obliges the caller to enter a call or
\* another client to write.
RangeFairness ==
    WF_vars(ScanStage(Scanner) \/ ScanCommit(Scanner) \/ ScanReturn(Scanner))

RangeSpec == ScanInit /\ [][RangeStep]_vars /\ RangeFairness

---------------------------------------------------------------------------
(* Cut over keys that share a prefix, as in the Cut test of main: records  *)
(* are appended under atoms that extend one another's names, then a feed   *)
(* is cut.                                                                 *)

\* The atoms a, a1, a2 and b1.
CutKeys == {Atom(<<97>>), Atom(<<97, 49>>), Atom(<<97, 50>>), Atom(<<98, 49>>)}
\* The feeds handed to Cut: a, a1 and b.
CutFeeds == {Atom(<<97>>), Atom(<<97, 49>>), Atom(<<98>>)}

CutAppend ==
    \E k \in CutKeys :
        \E r \in {AppendRec(db, k, Atom(<<102>>), "none")} :
            Return("Append", k, Atom(<<102>>), 0, "none", r)

CutCall ==
    \E k \in CutFeeds, f \in {"none", "write"} :
        \E r \in {Cut(db, k, f)} : Return("Cut", k, NilTerm, 0, f, r)

CutStep ==
    \/ CutAppend
    \/ CutCall

CutSpec == Init /\ [][CutStep]_vars

\* Keys another program stores through the engine handle: the bytes of the
\* atom a followed by more bytes.
RawKeys == {EncodeErlTerm(Atom(<<97>>)) \o tail : tail \in {<<0>>, <<255>>, <<255, 0>>}}

\* Another program writes a record through the engine handle.
RawPut ==
    /\ \E kb \in RawKeys : db' = DbPut(db, kb, EncodeErlTerm(Atom(<<102>>)))
    /\ last' = [NoCall EXCEPT !.op = "RawPut", !.pre = db]
    /\ UNCHANGED <<pc, loc, puts, cursors>>

RawCutStep ==
    \/ CutAppend
    \/ CutCall
    \/ RawPut

RawCutSpec == Init /\ [][RawCutStep]_vars

---------------------------------------------------------------------------
(* The order of the keys: records under atoms with names of different      *)
(* lengths and under integers of both signs, read back by the traversals.  *)

\* The atoms a1 and b, the integers -1 and 1.
OrderKeys == {Atom(<<97, 49>>), Atom(<<98>>), Integer(-1), Integer(1)}

OrderPut ==
    \E k \in OrderKeys :
        \E r \in {Put(db, k, Atom(<<102>>), "none")} :
            Return("Put", k, Atom(<<102>>), 0, "none", r)

OrderNext ==
    \E k \in OrderKeys :
        \E r \in {Next(db, k, "none")} : Return("Next", k, NilTerm, 0, "none", r)

OrderPrev ==
    \E k \in OrderKeys :
        \E r \in {Prev(db, k, "none")} : Return("Prev", k, NilTerm, 0, "none", r)

OrderTake ==
    \E k \in OrderKeys :
        \E r \in {Take(db, k, MaxN, "none")} : Return("Take", k, NilTerm, MaxN, "none", r)

OrderStep ==
    \/ OrderPut
    \/ OrderNext
    \/ OrderPrev
    \/ OrderTake

OrderSpec == Init /\ [][OrderStep]_vars

---------------------------------------------------------------------------
(* The facade used by a single caller: the whole KVS interface, and the    *)
(* operations of RocksDB that create and destroy records.                  *)

FacadeKeys == {Atom(<<97>>), Atom(<<98>>), Tuple(<<Atom(<<116>>), Integer(1)>>)}

FacadePut ==
    \E k \in FacadeKeys :
        \E r \in {Put(db, k, Atom(<<102>>), "none")} :
            Return("Put", k, Atom(<<102>>), 0, "none", r)

FacadeAppend ==
    \E k \in FacadeKeys :
        \E r \in {AppendRec(db, k, Atom(<<102>>), "none")} :
            Return("Append", k, Atom(<<102>>), 0, "none", r)

FacadeDelete ==
    \E k \in FacadeKeys :
        \E r \in {Delete(db, k, "none")} : Return("Delete", k, NilTerm, 0, "none", r)

FacadeDrop ==
    \E k \in FacadeKeys :
        \E r \in {Drop(db, k, 1, "none")} : Return("Drop", k, NilTerm, 1, "none", r)

FacadeCut ==
    \E k \in FacadeKeys :
        \E r \in {Cut(db, k, "none")} : Return("Cut", k, NilTerm, 0, "none", r)

FacadeIndex ==
    \E field \in FacadeKeys :
        \E r \in {Index(db, field, Atom(<<102>>))} :
            Return("Index", field, Atom(<<102>>), 0, "none", r)

FacadeSeq ==
    \E r \in {KVSSeq(db)} : Return("Seq", NilTerm, NilTerm, 0, "none", r)

FacadeCount ==
    \E f \in {"none", "iter"} :
        \E r \in {Count(db, f)} : Return("Count", NilTerm, NilTerm, 0, f, r)

FacadeDir ==
    \E f \in {"none", "iter"} :
        \E r \in {Dir(db, f)} : Return("Dir", NilTerm, NilTerm, 0, f, r)

FacadeStep ==
    \/ FacadePut
    \/ FacadeAppend
    \/ FacadeDelete
    \/ FacadeDrop
    \/ FacadeCut
    \/ FacadeIndex
    \/ FacadeSeq
    \/ FacadeCount
    \/ FacadeDir

FacadeSpec == Init /\ [][FacadeStep]_vars

---------------------------------------------------------------------------
(* The operations that write, called with keys and values the codec        *)
(* rejects and on an engine that rejects the write.                        *)

FaultKeys == {Atom(<<97>>), Atom(<<98>>), Opaque}
FaultVals == {Atom(<<102>>), Opaque}

FaultPut ==
    \E k \in FaultKeys, v \in FaultVals, f \in {"none", "put"} :
        \E r \in {Put(db, k, v, f)} : Return("Put", k, v, 0, f, r)

FaultDelete ==
    \E k \in FaultKeys, f \in {"none", "delete"} :
        \E r \in {Delete(db, k, f)} : Return("Delete", k, NilTerm, 0, f, r)

FaultAppend ==
    \E k \in FaultKeys, v \in FaultVals, f \in {"none", "put"} :
        \E r \in {AppendRec(db, k, v, f)} : Return("Append", k, v, 0, f, r)

FaultDrop ==
    \E k \in FaultKeys, n \in {1, MaxN}, f \in {"none", "write"} :
        \E r \in {Drop(db, k, n, f)} : Return("Drop", k, NilTerm, n, f, r)

FaultCut ==
    \E k \in FaultKeys, f \in {"none", "write"} :
        \E r \in {Cut(db, k, f)} : Return("Cut", k, NilTerm, 0, f, r)

FaultStep ==
    \/ FaultPut
    \/ FaultDelete
    \/ FaultAppend
    \/ FaultDrop
    \/ FaultCut

FaultSpec == Init /\ [][FaultStep]_vars

---------------------------------------------------------------------------
(* A caller that walks the store: it starts at Top (or Bot), calls Next    *)
(* (or Prev) on the key it was given last, and after every step calls the  *)
(* opposite operation on the key the step returned.  The store changes     *)
(* only between walks.                                                     *)

NoWalk ==
    [dir |-> "none", visited |-> <<>>, back |-> <<>>, err |-> ErrNil,
     end |-> NilTerm]

WalkInit ==
    /\ db = EmptyDb
    /\ last = NoCall
    /\ pc = [c \in Callers |-> "idle"]
    /\ loc = [c \in Callers |-> NoWalk]
    /\ puts = <<>>
    /\ cursors = {}

\* The calls a walk in direction dir makes.
WalkFirst(dir, d) == IF dir = "up" THEN Top(d, "none") ELSE Bot(d, "none")
WalkOn(dir, d, k) == IF dir = "up" THEN Next(d, k, "none") ELSE Prev(d, k, "none")
WalkBack(dir, d, k) == IF dir = "up" THEN Prev(d, k, "none") ELSE Next(d, k, "none")
WalkLast(dir, d) == IF dir = "up" THEN Bot(d, "none") ELSE Top(d, "none")

WalkPut ==
    /\ \A c \in Callers : pc[c] = "idle"
    /\ \E k \in KeyTerms, v \in ValTerms : db' = Put(db, k, v, "none").db
    /\ UNCHANGED <<last, pc, loc, puts, cursors>>

WalkDelete ==
    /\ \A c \in Callers : pc[c] = "idle"
    /\ \E k \in KeyTerms : db' = Delete(db, k, "none").db
    /\ UNCHANGED <<last, pc, loc, puts, cursors>>

\* The walk starts: Top() or Bot().
WalkStart(c) ==
    /\ c = Scanner
    /\ pc[c] = "idle"
    /\ \E dir \in {"up", "down"} :
        \E r \in {WalkFirst(dir, db)} :
            /\ loc' = [loc EXCEPT ![c] =
                   [NoWalk EXCEPT !.dir = dir, !.err = r.err,
                                  !.visited = IF r.err = ErrNil
                                              THEN <<r.out[1].Key>> ELSE <<>>]]
            /\ pc' = [pc EXCEPT ![c] = IF r.err = ErrNil THEN "walking" ELSE "ended"]
    /\ UNCHANGED <<db, last, puts, cursors>>

\* One step: Next (or Prev) of the key visited last.
WalkStep(c) ==
    /\ pc[c] = "walking"
    /\ \E r \in {WalkOn(loc[c].dir, db, loc[c].visited[Len(loc[c].visited)])} :
        /\ loc' = [loc EXCEPT ![c].err = r.err,
                              ![c].visited = IF r.err = ErrNil
                                             THEN Append(@, r.out[1].Key) ELSE @]
        /\ pc' = [pc EXCEPT ![c] = IF r.err = ErrNil THEN "stepped" ELSE "ended"]
    /\ UNCHANGED <<db, last, puts, cursors>>

\* The opposite call on the key the step returned; its answer is kept.
WalkReturn(c) ==
    /\ pc[c] = "stepped"
    /\ \E r \in {WalkBack(loc[c].dir, db, loc[c].visited[Len(loc[c].visited)])} :
        loc' = [loc EXCEPT ![c].back =
                   Append(@, IF r.err = ErrNil THEN r.out[1].Key ELSE NilTerm)]
    /\ pc' = [pc EXCEPT ![c] = "walking"]
    /\ UNCHANGED <<db, last, puts, cursors>>

\* The walk is over: the caller asks for the other end of the store.
WalkEnd(c) ==
    /\ pc[c] = "ended"
    /\ \E r \in {WalkLast(loc[c].dir, db)} :
        loc' = [loc EXCEPT ![c].end =
                   IF r.err = ErrNil THEN r.out[1].Key ELSE NilTerm]
    /\ pc' = [pc EXCEPT ![c] = "done"]
    /\ UNCHANGED <<db, last, puts, cursors>>

WalkReset(c) ==
    /\ pc[c] = "done"
    /\ loc' = [loc EXCEPT ![c] = NoWalk]
    /\ pc' = [pc EXCEPT ![c] = "idle"]
    /\ UNCHANGED <<db, last, puts, cursors>>

WalkNext ==
    \/ WalkPut
    \/ WalkDelete
    \/ \E c \in Callers :
        \/ WalkStart(c)
        \/ WalkStep(c)
        \/ WalkReturn(c)
        \/ WalkEnd(c)
        \/ WalkReset(c)

WalkSpec == WalkInit /\ [][WalkNext]_vars

---------------------------------------------------------------------------
(* Properties.  In Spec, last is the call that led to the current state,   *)
(* last.pre the store it started from and db the store it left.            *)

\* The record of key term k in store d, as encoded bytes.
Has(d, k) == EncodeErlTerm(k) \in DOMAIN d
ValueOf(d, k) == d[EncodeErlTerm(k)]

\* Store d2 is store d1 with the keys of K removed, nothing else changed.
Without(d1, d2, K) ==
    /\ DOMAIN d2 = DOMAIN d1 \ K
    /\ \A x \in DOMAIN d2 : d2[x] = d1[x]

\* Store d2 is store d1 with value vb under key kb, nothing else changed.
With(d1, d2, kb, vb) ==
    /\ DOMAIN d2 = DOMAIN d1 \cup {kb}
    /\ d2[kb] = vb
    /\ \A x \in DOMAIN d1 \ {kb} : d2[x] = d1[x]

\* The stored keys above, below, and from key bytes kb on.
KeysAbove(d, kb) == {j \in DOMAIN d : BytesLess(kb, j)}
KeysBelow(d, kb) == {j \in DOMAIN d : BytesLess(j, kb)}
KeysFrom(d, kb) == {j \in DOMAIN d : ~BytesLess(j, kb)}

\* out is the one record of store d stored under key bytes kb, decoded.
IsRecord(d, out, kb) ==
    /\ Len(out) = 1
    /\ EncodeErlTerm(out[1].Key) = kb
    /\ EncodeErlTerm(out[1].Value) = d[kb]

\* C1: Append is a dedup-insert.  It writes v under k only when no record
\* exists at k and writes nothing when one exists; it returns k; and a
\* second Append(k, v2) leaves the value stored by the first and returns k.
C1_AppendDedup ==
    last.op = "Append" =>
        LET kb == EncodeErlTerm(last.key)
        IN  /\ kb \in DOMAIN last.pre => db = last.pre
            /\ last.fault = "none" =>
                /\ last.err = ErrNil
                /\ last.ret = last.key
                /\ kb \notin DOMAIN last.pre =>
                       With(last.pre, db, kb, EncodeErlTerm(last.val))
                /\ \A v2 \in ValTerms :
                       LET again == AppendRec(db, last.key, v2, "none")
                       IN  /\ again.db = db
                           /\ again.ret = last.key
                           /\ again.err = ErrNil

\* An Append of another value on a key that holds a record has returned.
C1_Witness ==
    /\ last.op = "Append"
    /\ last.fault = "none"
    /\ Has(last.pre, last.key)
    /\ ValueOf(last.pre, last.key) # EncodeErlTerm(last.val)
    /\ ValueOf(db, last.key) = ValueOf(last.pre, last.key)

\* The entries of puts written by caller c.
PutsOf(c) == {i \in 1..Len(puts) : puts[i].caller = c}

\* C2: Append's check and insert are two engine steps.  Two callers that
\* both saw k absent both write it, whatever the other did in between, and
\* the value stored in the end is the later writer's.
C2_AppendRace ==
    \A c1, c2 \in Callers :
        (/\ c1 # c2
         /\ pc[c1] = "done" /\ pc[c2] = "done"
         /\ loc[c1].rec = loc[c2].rec
         /\ loc[c1].existingValue.isNil /\ loc[c2].existingValue.isNil
         /\ loc[c1].err = ErrNil /\ loc[c2].err = ErrNil)
        => /\ Len(puts) = 2
           /\ PutsOf(c1) # {} /\ PutsOf(c2) # {}
           /\ puts[1].key = EncodeErlTerm(loc[c1].rec)
           /\ puts[2].key = puts[1].key
           /\ db[puts[2].key] = puts[2].value

\* Both callers saw the key absent, both wrote, and the first writer's
\* value is lost.
C2_Witness ==
    /\ pc["c1"] = "done" /\ pc["c2"] = "done"
    /\ loc["c1"].rec = loc["c2"].rec
    /\ loc["c1"].existingValue.isNil /\ loc["c2"].existingValue.isNil
    /\ Len(puts) = 2
    /\ puts[1].value # puts[2].value
    /\ db[puts[1].key] # puts[1].value

\* The call recorded in last is one that Put, Delete, Drop or Cut made on
\* key term k: a Put or Delete of k, or a Drop or Cut that removed k.
Touches(k) ==
    \/ last.op \in {"Put", "Delete"} /\ last.key = k
    \/ last.op \in {"Drop", "Cut"} /\ ~Has(db, k)

\* C3: Put is last-write-wins and Get reads it back.  After a successful
\* Put(k, v), Get(k) returns exactly v whatever k held before, and every
\* call other than a Put, Delete, Drop or Cut touching k leaves what Get(k)
\* returns as it was.
C3_PutGet ==
    /\ (last.op = "Put" /\ last.err = ErrNil) =>
           LET got == Get(db, last.key, "none")
           IN  got.err = ErrNil /\ got.ret = last.val
    /\ \A k \in KeyTerms :
           (last.op # "none" /\ Has(last.pre, k) /\ ~Touches(k)) =>
               LET before == Get(last.pre, k, "none")
                   after == Get(db, k, "none")
               IN  /\ before.err = ErrNil
                   /\ after.err = ErrNil
                   /\ after.ret = before.ret

\* A Put has replaced another value of its key.
C3_Witness ==
    /\ last.op = "Put"
    /\ last.err = ErrNil
    /\ Has(last.pre, last.key)
    /\ ValueOf(last.pre, last.key) # EncodeErlTerm(last.val)
    /\ Get(db, last.key, "none").ret = last.val

\* C4: Get(k) fails with "key not found", and returns no value, exactly
\* when no record exists at k (the engine not failing); so it does after
\* Delete(k) and after a Drop or Cut that removed k.
C4_GetNotFound ==
    /\ last.op = "Get" =>
           /\ last.err = ErrKeyNotFound => ~Has(last.pre, last.key)
           /\ last.err = ErrNil => Has(last.pre, last.key)
           /\ ~Has(last.pre, last.key) => (last.err # ErrNil /\ last.ret = NilTerm)
           /\ (~Has(last.pre, last.key) /\ last.fault = "none") =>
                  last.err = ErrKeyNotFound
           /\ (Has(last.pre, last.key) /\ last.fault = "none") =>
                  last.err = ErrNil
    /\ (last.op = "Delete" /\ last.err = ErrNil) =>
           Get(db, last.key, "none").err = ErrKeyNotFound
    /\ (last.op \in {"Drop", "Cut"} /\ last.err = ErrNil) =>
           \A k \in KeyTerms :
               (Has(last.pre, k) /\ ~Has(db, k)) =>
                   Get(db, k, "none").err = ErrKeyNotFound

\* A Get of an absent key has failed while the store holds other records.
C4_Witness ==
    /\ last.op = "Get"
    /\ last.fault = "none"
    /\ ~Has(last.pre, last.key)
    /\ DOMAIN last.pre # {}
    /\ last.err = ErrKeyNotFound

\* C5: Delete is idempotent.  Delete(k) of an absent key succeeds and leaves
\* the store unchanged, so a second Delete(k) gives the same store and the
\* same success as the first.
C5_DeleteIdempotent ==
    (last.op = "Delete" /\ last.fault = "none") =>
        /\ last.err = ErrNil
        /\ ~Has(db, last.key)
        /\ ~Has(last.pre, last.key) => db = last.pre
        /\ LET again == Delete(db, last.key, "none")
           IN  again.err = last.err /\ again.db = db

\* A Delete of an absent key has returned while the store holds records.
C5_Witness ==
    /\ last.op = "Delete"
    /\ last.fault = "none"
    /\ ~Has(last.pre, last.key)
    /\ DOMAIN last.pre # {}
    /\ last.err = ErrNil

\* C6: Top returns the record with the smallest key of the whole store and
\* Bot the one with the largest, in byte order of the encoded keys; both
\* fail with "database is empty" if and only if the store holds no record.
C6_TopBot ==
    (last.op \in {"Top", "Bot"} /\ last.fault = "none") =>
        /\ last.err = ErrEmpty <=> DOMAIN last.pre = {}
        /\ last.err = ErrNil <=> DOMAIN last.pre # {}
        /\ last.err = ErrNil =>
               \E kb \in DOMAIN last.pre :
                   /\ IsRecord(last.pre, last.out, kb)
                   /\ last.op = "Top" => KeysBelow(last.pre, kb) = {}
                   /\ last.op = "Bot" => KeysAbove(last.pre, kb) = {}

\* Bot has returned the largest of at least three keys.
C6_Witness ==
    /\ last.op = "Bot"
    /\ last.err = ErrNil
    /\ Cardinality(DOMAIN last.pre) >= 3
    /\ Cardinality(KeysBelow(last.pre, EncodeErlTerm(last.out[1].Key))) >= 2

\* C7: Next(k) returns the record with the smallest key strictly greater
\* than k, stored or not, never the record at k; it fails with "no next
\* key" exactly when the store has no key greater than k.
C7_Next ==
    (last.op = "Next" /\ last.fault = "none") =>
        LET above == KeysAbove(last.pre, EncodeErlTerm(last.key))
        IN  /\ last.err = ErrNoNext <=> above = {}
            /\ last.err = ErrNil <=> above # {}
            /\ last.err = ErrNil =>
                   \E kb \in above :
                       /\ IsRecord(last.pre, last.out, kb)
                       /\ KeysBelow(last.pre, kb) \cap above = {}
                       /\ last.out[1].Key # last.key

\* Next of a key that is not stored, with a stored key below it, has
\* returned the key right after it.
C7_Witness ==
    /\ last.op = "Next"
    /\ last.err = ErrNil
    /\ ~Has(last.pre, last.key)
    /\ KeysBelow(last.pre, EncodeErlTerm(last.key)) # {}
    /\ BytesLess(EncodeErlTerm(last.key), EncodeErlTerm(last.out[1].Key))

\* C8: Prev(k) returns the record with the largest key strictly less than
\* k, stored or not, also when k is above every stored key, never the
\* record at k; it fails with "no previous key" exactly when the store has
\* no key less than k.
C8_Prev ==
    (last.op = "Prev" /\ last.fault = "none") =>
        LET below == KeysBelow(last.pre, EncodeErlTerm(last.key))
        IN  /\ last.err = ErrNoPrev <=> below = {}
            /\ last.err = ErrNil <=> below # {}
            /\ last.err = ErrNil =>
                   \E kb \in below :
                       /\ IsRecord(last.pre, last.out, kb)
                       /\ KeysAbove(last.pre, kb) \cap below = {}
                       /\ last.out[1].Key # last.key

\* Prev of a key that is not stored and above every stored key has
\* returned the last of at least two records.
C8_Witness ==
    /\ last.op = "Prev"
    /\ last.err = ErrNil
    /\ ~Has(last.pre, last.key)
    /\ KeysAbove(last.pre, EncodeErlTerm(last.key)) = {}
    /\ Cardinality(DOMAIN last.pre) >= 2

\* The smaller of two counts, and no less than zero.
TakeLen(n, m) == IF n <= 0 THEN 0 ELSE IF n < m THEN n ELSE m

\* C9: Take(start, n) returns, in ascending key order, exactly the first
\* min(n, m) records whose key is >= start, m the number of such records;
\* with fewer than n of them, or n <= 0, the result is shorter or empty and
\* the call does not fail.
C9_Take ==
    (last.op = "Take" /\ last.fault = "none") =>
        LET from == KeysFrom(last.pre, EncodeErlTerm(last.key))
        IN  /\ last.err = ErrNil
            /\ Len(last.out) = TakeLen(last.n, Cardinality(from))
            /\ \A i \in 1..Len(last.out) :
                   LET kb == EncodeErlTerm(last.out[i].Key)
                   IN  /\ kb \in from
                       /\ Cardinality(KeysBelow(last.pre, kb) \cap from) = i - 1
                       /\ EncodeErlTerm(last.out[i].Value) = last.pre[kb]

\* Take has returned two records and left a third one out.
C9_Witness ==
    /\ last.op = "Take"
    /\ last.err = ErrNil
    /\ Len(last.out) = 2
    /\ last.n = 2
    /\ Cardinality(KeysFrom(last.pre, EncodeErlTerm(last.key))) = 3

\* The encoded keys of the records Take(start, n) returns on store d.
TakenKeys(d, start, n) ==
    {EncodeErlTerm(e.Key) : e \in Range(Take(d, start, n, "none").out)}

\* C10: Drop(start, n) removes exactly the keys that Take(start, n) returns
\* on the same store, and every other record is still there, unchanged.
C10_TakeDrop ==
    (last.op = "Drop" /\ last.fault = "none") =>
        /\ last.err = ErrNil
        /\ Without(last.pre, db, TakenKeys(last.pre, last.key, last.n))
        /\ TakenKeys(last.pre, last.key, last.n) \subseteq DOMAIN last.pre

\* Drop(a, 2) on three keys from a on has left only the third.
C10_Witness ==
    /\ last.op = "Drop"
    /\ last.err = ErrNil
    /\ last.n = 2
    /\ Has(last.pre, last.key)
    /\ Cardinality(DOMAIN last.pre) = 3
    /\ KeysBelow(last.pre, EncodeErlTerm(last.key)) = {}
    /\ Cardinality(DOMAIN db) = 1
    /\ KeysAbove(last.pre, FirstKey(DOMAIN db)) = {}


\* C11: Drop and Cut delete all-or-nothing.  While the traversal runs, every
\* key it has staged is still stored; the write removes the staged keys
\* together and nothing else; when the call fails, the write removed
\* nothing and the error of a call that reached the engine is the engine's.
C11_DropCutAtomic ==
    \A c \in Callers :
        loc[c].op \in {"Drop", "Cut"} =>
            /\ pc[c] = "scanning" => Range(loc[c].batch) \subseteq DOMAIN db
            /\ pc[c] = "exiting" =>
                /\ loc[c].err = ErrNil =>
                    Without(loc[c].pre, loc[c].post, Range(loc[c].batch))
                /\ loc[c].err # ErrNil =>
                    /\ loc[c].post = loc[c].pre
                    /\ Encodable(loc[c].key) => loc[c].err = ErrEngine

C11_Witness ==
    \E c \in Callers :
        /\ pc[c] = "exiting"
        /\ loc[c].op = "Drop"
        /\ loc[c].err = ErrNil
        /\ Len(loc[c].batch) >= 2
        /\ Range(loc[c].batch) \subseteq DOMAIN loc[c].pre
        /\ Range(loc[c].batch) \cap DOMAIN loc[c].post = {}
        /\ loc[c].post # EmptyDb


\* Byte string p is a prefix of byte string q.
IsPrefix(p, q) == Len(p) <= Len(q) /\ SubSeq(q, 1, Len(p)) = p

\* The stored keys of d whose bytes start with the bytes of term t.
PrefixedKeys(d, t) == {k \in DOMAIN d : IsPrefix(EncodeErlTerm(t), k)}

NameExtends(p, t) ==
    /\ p.tag = "atom"
    /\ t.tag = "atom"
    /\ IsPrefix(p.name, t.name)

\* The stored keys of d that encode an atom whose name extends that of p.
ExtendingKeys(d, p) ==
    {EncodeErlTerm(t) : t \in {x \in CutKeys : NameExtends(p, x)}} \cap DOMAIN d

\* C13: Cut(P) removes the records whose keys are atoms with a name that
\* extends the name of P, and no other record.
C13_CutLogicalPrefix ==
    (last.op = "Cut" /\ last.fault = "none") =>
        /\ last.err = ErrNil
        /\ Without(last.pre, db, ExtendingKeys(last.pre, last.key))

\* A Cut(a) that succeeded and left a1 and a2 stored, next to b1.
C13_Witness ==
    /\ last.op = "Cut"
    /\ last.key = Atom(<<97>>)
    /\ last.err = ErrNil
    /\ Has(db, Atom(<<97, 49>>))
    /\ Has(db, Atom(<<97, 50>>))
    /\ Has(db, Atom(<<98, 49>>))
    /\ ~Has(db, Atom(<<97>>))
    /\ Has(last.pre, Atom(<<97>>))


\* The logical order of two terms of one kind: integers by value, atoms by
\* name in alphabetical order.  Terms of different kinds are not compared.
TermLess(a, b) ==
    \/ a.tag = "int" /\ b.tag = "int" /\ a.val < b.val
    \/ a.tag = "atom" /\ b.tag = "atom" /\ BytesLess(a.name, b.name)

\* C14: the encoding preserves the logical order of the keys, so what the
\* traversals return is in logical order: of two stored keys the logically
\* smaller has the smaller bytes, Next returns a key logically after its
\* argument when both are of one kind, Prev one logically before it, and
\* Take lists keys of one kind in ascending logical order.
C14_OrderPreserved ==
    /\ \A a, b \in OrderKeys :
        (Has(db, a) /\ Has(db, b) /\ TermLess(a, b)) =>
            BytesLess(EncodeErlTerm(a), EncodeErlTerm(b))
    /\ (last.op = "Next" /\ last.err = ErrNil) =>
            ~TermLess(last.out[1].Key, last.key)
    /\ (last.op = "Prev" /\ last.err = ErrNil) =>
            ~TermLess(last.key, last.out[1].Key)
    /\ (last.op = "Take" /\ last.err = ErrNil) =>
            \A i, j \in 1..Len(last.out) :
                i < j => ~TermLess(last.out[j].Key, last.out[i].Key)

\* Next(b) returned the record of a1, which is logically before b.
C14_Witness ==
    /\ last.op = "Next"
    /\ last.key = Atom(<<98>>)
    /\ last.err = ErrNil
    /\ last.out[1].Key = Atom(<<97, 49>>)


\* C15: Index and Seq never report success with an empty result: a call
\* either returns an error or returns something.
C15_IndexSeqLoud ==
    last.op \in {"Index", "Seq"} =>
        \/ last.err # ErrNil
        \/ last.ret # NilTerm
        \/ last.out # <<>>

\* Index was called on a store that holds records and returned nil, nil.
C15_Witness ==
    /\ last.op = "Index"
    /\ db # EmptyDb
    /\ last.err = ErrNil
    /\ last.ret = NilTerm
    /\ last.out = <<>>

Holders == {c \in Callers : pc[c] # "idle" /\ loc[c].cursor # 0}

\* C17: every iterator a traversal creates is closed when the call returns,
\* whatever the exit path.  The open iterators are those of the calls in
\* progress, a caller that is not in a call holds none, no two calls hold
\* the same one, and with no call in progress none is open.
C17_CursorScope ==
    /\ cursors = {loc[c].cursor : c \in Holders}
    /\ \A c \in Callers : pc[c] = "idle" => loc[c].cursor = 0
    /\ \A c1, c2 \in Holders : c1 # c2 => loc[c1].cursor # loc[c2].cursor
    /\ (\A c \in Callers : pc[c] = "idle") => cursors = {}

\* No call is in progress and no iterator is open, after a Take that failed
\* on a record it could not decode and a Take that failed to encode its key.
C17_Witness ==
    /\ \A c \in Callers : pc[c] = "idle"
    /\ cursors = {}
    /\ loc[Scanner].op = "Take"
    /\ loc[Scanner].err = ErrDecode
    /\ \E c \in Callers \ {Scanner} : loc[c].op = "Take" /\ loc[c].err = ErrEncode


\* The call recorded in last had to encode a term the codec rejects: its
\* key, the value of a Put, or the value of an Append of an absent key.
EncodeFails ==
    \/ ~Encodable(last.key)
    \/ last.op = "Put" /\ ~Encodable(last.val)
    \/ last.op = "Append" /\ ~Encodable(last.val) /\ ~Has(last.pre, last.key)

\* C18: a mutating operation that fails has no effect and is not retried.
\* When encoding fails the call returns the encode error, calls no write on
\* the engine and leaves the store as it was; when the engine rejects the
\* write the call returns the engine error after that one attempt and the
\* store is as it was; no call writes more than once.
C18_FailureReport ==
    last.op \in {"Put", "Delete", "Append", "Drop", "Cut"} =>
        /\ EncodeFails => (last.err = ErrEncode /\ last.writes = 0 /\ db = last.pre)
        /\ last.err = ErrEncode => EncodeFails
        /\ (last.fault \in {"put", "delete", "write"} /\ last.writes > 0) =>
                (last.err = ErrEngine /\ last.writes = 1 /\ db = last.pre)
        /\ last.writes <= 1
        /\ last.err # ErrNil => db = last.pre

\* The engine rejected the write of a Drop that had staged the two stored
\* keys: the call failed and both records are still stored.
C18_Witness ==
    /\ last.op = "Drop"
    /\ last.fault = "write"
    /\ last.err = ErrEngine
    /\ last.writes = 1
    /\ last.n >= 2
    /\ Cardinality(KeysFrom(last.pre, EncodeErlTerm(last.key))) >= 2
    /\ db = last.pre


\* C19: the read operations have no effect on the store.  After Get, Top,
\* Bot, Next, Prev or Take, whether it succeeded or failed, the store holds
\* the records it held before the call, with the same values.
C19_ReadsKeepStore ==
    last.op \in {"Get", "Top", "Bot", "Next", "Prev", "Take"} => db = last.pre

\* A Take that returned two records of a store, which still holds them.
C19_Witness ==
    /\ last.op = "Take"
    /\ last.err = ErrNil
    /\ Len(last.out) = 2
    /\ \A i \in 1..2 : Has(db, last.out[i].Key)
    /\ db = last.pre

\* C20: Put(k, v), Delete(k) and Append(k, v) touch only k.  Every key other
\* than encode(k) is stored after the call exactly when it was stored before
\* it, with the same value.
C20_SingleKeyFrame ==
    last.op \in {"Put", "Delete", "Append"} =>
        LET kb == EncodeErlTerm(last.key)
        IN  /\ DOMAIN db \ {kb} = DOMAIN last.pre \ {kb}
            /\ \A x \in DOMAIN db \ {kb} : db[x] = last.pre[x]

\* A Delete removed a record that had a record before it and one after it,
\* and both are still stored.
C20_Witness ==
    /\ last.op = "Delete"
    /\ last.err = ErrNil
    /\ Has(last.pre, last.key)
    /\ ~Has(db, last.key)
    /\ KeysBelow(db, EncodeErlTerm(last.key)) # {}
    /\ KeysAbove(db, EncodeErlTerm(last.key)) # {}


\* The keys of a walk are in the order of the walk's direction.
InWalkOrder(dir, visited) ==
    \A i, j \in 1..Len(visited) :
        i < j => IF dir = "up"
                 THEN BytesLess(EncodeErlTerm(visited[i]), EncodeErlTerm(visited[j]))
                 ELSE BytesLess(EncodeErlTerm(visited[j]), EncodeErlTerm(visited[i]))

\* C21: Next and Prev are inverse on stored keys, and a walk by Next from
\* Top visits the store in order.  In a walk up, Prev of the key that
\* Next(k) returned is k; in a walk down, Next of the key that Prev(k)
\* returned is k.  A finished walk up has visited every stored key once, in
\* ascending order, ended with "no next key", and its last key is Bot's.
C21_NextPrevInverse ==
    \A c \in Callers :
        /\ pc[c] \in {"walking", "ended", "done"} =>
            /\ loc[c].visited # <<>> => Len(loc[c].back) = Len(loc[c].visited) - 1
            /\ \A i \in 1..Len(loc[c].back) : loc[c].back[i] = loc[c].visited[i]
        /\ (pc[c] = "done" /\ loc[c].dir = "up") =>
            /\ {EncodeErlTerm(loc[c].visited[i]) : i \in 1..Len(loc[c].visited)} = DOMAIN db
            /\ InWalkOrder("up", loc[c].visited)
            /\ loc[c].err = IF db = EmptyDb THEN ErrEmpty ELSE ErrNoNext
            /\ db # EmptyDb => loc[c].end = loc[c].visited[Len(loc[c].visited)]

\* A finished walk up over three stored keys, each step undone by Prev.
C21_Witness ==
    \E c \in Callers :
        /\ pc[c] = "done"
        /\ loc[c].dir = "up"
        /\ Len(loc[c].visited) = 3
        /\ Len(loc[c].back) = 2
        /\ loc[c].err = ErrNoNext


\* The keys stored when the write of caller c's Drop or Cut is made that
\* its iterator, created earlier, does not read.
InsertedSince(c) == DOMAIN loc[c].pre \ DOMAIN loc[c].iter.snap

\* C22: Drop and Cut delete only what their own iterator read.  A key that
\* was absent when the iterator was created and was inserted before the
\* batch is written is stored after the write, with its value, also when
\* it lies between keys that are deleted.
C22_DropCutOwnKeys ==
    \A c \in Callers :
        (pc[c] = "exiting" /\ loc[c].op \in {"Drop", "Cut"} /\ loc[c].cursor # 0) =>
            \A k \in InsertedSince(c) :
                /\ k \in DOMAIN loc[c].post
                /\ loc[c].post[k] = loc[c].pre[k]

\* A Drop deleted two keys, and a key inserted between them after its
\* iterator was created is still stored.
C22_Witness ==
    \E c \in Callers :
        /\ pc[c] = "exiting"
        /\ loc[c].op = "Drop"
        /\ loc[c].err = ErrNil
        /\ Len(loc[c].batch) = 2
        /\ Range(loc[c].batch) \cap DOMAIN loc[c].post = {}
        /\ \E k \in InsertedSince(c) :
            /\ BytesLess(loc[c].batch[1], k)
            /\ BytesLess(k, loc[c].batch[2])
            /\ k \in DOMAIN loc[c].post


\* The loop of caller c's Take, Drop or Cut is bounded: Take and Drop have
\* made at most n turns, and the keys Cut has staged are distinct keys of
\* its range that its iterator reads.
BoundedScan(c) ==
    /\ loc[c].op \in {"Take", "Drop"} => loc[c].count <= loc[c].n
    /\ loc[c].op \in {"Drop", "Cut"} =>
        /\ Len(loc[c].batch) = loc[c].count
        /\ \A i, j \in 1..Len(loc[c].batch) :
            i < j => BytesLess(loc[c].batch[i], loc[c].batch[j])
        /\ Range(loc[c].batch) \subseteq DOMAIN loc[c].iter.snap
    /\ loc[c].op = "Cut" =>
        \A i \in 1..Len(loc[c].batch) : BytesLess(loc[c].batch[i], loc[c].end)

\* C23: every range call returns.  Its loop is bounded at every moment, and
\* a caller inside Take, Drop or Cut is eventually out of it, whatever the
\* other clients insert meanwhile.
C23_ScansReturn ==
    /\ [](\A c \in Callers : BoundedScan(c))
    /\ \A c \in Callers : (pc[c] # "idle") ~> (pc[c] = "idle")

\* A Drop has staged a key and is still in its loop, with more keys to
\* visit, while the store holds a key inserted after its iterator was
\* created, above the staged one.
C23_Witness ==
    \E c \in Callers :
        /\ pc[c] = "scanning"
        /\ loc[c].op = "Drop"
        /\ Len(loc[c].batch) = 1
        /\ DropContinues(loc[c].iter, loc[c].count, loc[c].n)
        /\ \E k \in DOMAIN db \ DOMAIN loc[c].iter.snap : BytesLess(loc[c].batch[1], k)

=============================================================================
